---- MODULE Spec2Model ----
(***************************************************************************)
(* MassPassGen (src/masspassgen.py): the random sampler, the pattern       *)
(* expander, the bulk writer and the run of main() that drives them.       *)
(*                                                                         *)
(* A string is a sequence of one-character strings.  An optional value     *)
(* (Python's None or a value) is a sequence of length 0 or 1.              *)
(***************************************************************************)
EXTENDS Integers, Sequences, FiniteSets, TLC

VARIABLES
    pc,         \* position of the run
    outcome,    \* "running" | "invalid" | "aborted" | "interrupted" | "raised" | "completed"
    exitCode,   \* optional process exit code
    count,      \* args.count
    length,     \* args.length, optional
    min_len,    \* args.min / self.min_len
    max_len,    \* args.max / self.max_len
    pattern,    \* args.pattern; <<>> is both None and ""
    target_len, \* generate_random_passwords: target_len, optional until resolved
    passwords,  \* generate_random_passwords: the set `passwords`
    plist,      \* the list a generator returned / generate_pattern_passwords' list
    i,          \* generate_pattern_passwords: loop index
    calls,      \* seed indices passed to apply_pattern so far, in order
    expansions, \* what apply_pattern returned for them, in order
    progress,   \* sizes reported by the "[*] Progress" line, in order
    lastDraw,   \* the last pass of the sampling loop: [accepted, notified]
    file0,      \* the destination before the run
    file,       \* the destination: [exists, lines]
    wpos,       \* save_to_file: index of the next entry to write
    saveResult, \* save_to_file's return value, optional
    complete,   \* "[+] Generation complete!" was printed
    seed,       \* apply_pattern called on its own: the seed
    result      \* apply_pattern called on its own: optional result

vars == <<pc, outcome, exitCode, count, length, min_len, max_len, pattern,
          target_len, passwords, plist, i, calls, expansions, progress,
          lastDraw, file0, file, wpos, saveResult, complete, seed, result>>

(***************************************************************************)
(* Bounds of the model.                                                    *)
(***************************************************************************)
\* largest count explored in random mode
MaxCount == 3
\* the count explored in pattern mode beside those: seeds of two digits
MaxPatternCount == 11
\* largest length for which strings are drawn
MaxTargetLen == 1
\* patterns of a run are built from at most this many pieces
MaxPatPieces == 2
\* patterns given to apply_pattern alone have at most this many characters
MaxPatLen == 5
\* largest seed given to apply_pattern alone
MaxSeed == 11
\* repeated progress lines recorded for discarded draws
MaxProgress == 3
\* the sampler reports every PROGRESS_EVERY entries; the source's step is
\* 100000 (line 34), scaled down so that the set can reach a multiple of it
PROGRESS_EVERY == 2

(***************************************************************************)
(* Program constants.                                                      *)
(***************************************************************************)
MIN_LENGTH == 1
MAX_LENGTH == 128
CONFIRM_LIMIT == 10000000

\* string.ascii_letters, string.digits, string.punctuation: one
\* representative of each class ("d" is a letter that also names a token)
ascii_letters == {"d"}
digits == {"7"}
punctuation == {"!"}
charset == ascii_letters \cup digits \cup punctuation

None == <<>>
Some(x) == <<x>>
Max0(k) == IF k < 0 THEN 0 ELSE k

\* random.choices(self.charset, k=k) joined: every string it can return
\* (no element for k <= 0: the empty string)
Choices(k) == [1..Max0(k) -> charset]

\* number of distinct strings a draw of k characters can return
RECURSIVE NumStrings(_)
NumStrings(k) == IF k <= 0 THEN 1 ELSE Cardinality(charset) * NumStrings(k - 1)

\* str.replace(old, new): all non-overlapping occurrences, left to right
RECURSIVE Replace(_, _, _)
Replace(s, old, new) ==
    IF Len(s) < Len(old) THEN s
    ELSE IF SubSeq(s, 1, Len(old)) = old
         THEN new \o Replace(SubSeq(s, Len(old) + 1, Len(s)), old, new)
         ELSE <<Head(s)>> \o Replace(Tail(s), old, new)

DigitChar(d) == <<"0", "1", "2", "3", "4", "5", "6", "7", "8", "9">>[d + 1]

\* str(seed) for seed >= 0
RECURSIVE DecStr(_)
DecStr(n) == IF n < 10 THEN <<DigitChar(n)>>
             ELSE DecStr(n \div 10) \o <<DigitChar(n % 10)>>

TokN == <<"{", "n", "}">>
TokA == <<"{", "a", "}">>
TokD == <<"{", "d", "}">>
TokS == <<"{", "s", "}">>

\* apply_pattern(pattern, seed); a, d, s are what the three random.choice
\* calls return
apply_pattern(pat, sd, a, d, s) ==
    LET r1 == Replace(pat, TokN, DecStr(sd))
        r2 == Replace(r1, TokA, <<a>>)
        r3 == Replace(r2, TokD, <<d>>)
        r4 == Replace(r3, TokS, <<s>>)
    IN r4

(***************************************************************************)
(* Inputs.                                                                 *)
(***************************************************************************)
BigCount == CONFIRM_LIMIT + 1
CountArgs == (0..MaxCount) \cup {MaxPatternCount, BigCount}
LengthArgs == {None} \cup {Some(n) : n \in -1..MaxTargetLen}
BoundArgs == (0..MaxTargetLen) \cup {MAX_LENGTH, MAX_LENGTH + 1}

Pieces == {TokN, TokA, TokD, TokS, <<"u">>}

\* the strings made of at most n pieces
RECURSIVE PiecePatterns(_)
PiecePatterns(n) ==
    IF n = 0 THEN {<<>>}
    ELSE LET P == PiecePatterns(n - 1) IN P \cup {p \o q : p \in P, q \in Pieces}

PatChars == {"{", "}", "n", "a", "d", "s"}
\* the strings of at most n characters of PatChars
CharPatterns(n) == UNION {[1..k -> PatChars] : k \in 0..n}

OldEntry == <<"o">>
NoFile == [exists |-> FALSE, lines |-> <<>>]
OldFile == [exists |-> TRUE, lines |-> <<OldEntry>>]

\* the state of everything a run has not touched yet
Fresh ==
    /\ outcome = "running"
    /\ exitCode = None
    /\ target_len = None
    /\ passwords = {}
    /\ plist = <<>>
    /\ i = 0
    /\ calls = <<>>
    /\ expansions = <<>>
    /\ progress = <<>>
    /\ lastDraw = [accepted |-> FALSE, notified |-> FALSE]
    /\ file0 \in {NoFile, OldFile}
    /\ file = file0
    /\ wpos = 0
    /\ saveResult = None
    /\ complete = FALSE
    /\ result = None

\* main() after parse_args
Init ==
    /\ pc = "validate"
    /\ count \in CountArgs
    /\ length \in LengthArgs
    /\ min_len \in BoundArgs
    /\ max_len \in BoundArgs
    /\ pattern \in PiecePatterns(MaxPatPieces)
    /\ seed = 0
    /\ Fresh

Running == outcome = "running"

(***************************************************************************)
(* main(): validation and confirmation.                                    *)
(***************************************************************************)
\* mutant: the upper bound itself is rejected
ValidationError_excl(mn, mx, c) ==
    IF mn < MIN_LENGTH \/ mx >= MAX_LENGTH THEN "length"
    ELSE IF mn > mx THEN "order"
    ELSE IF c < 1 THEN "count"
    ELSE "ok"

ValidationError(mn, mx, c) ==
    IF mn < MIN_LENGTH \/ mx > MAX_LENGTH THEN "length"
    ELSE IF mn > mx THEN "order"
    ELSE IF c < 1 THEN "count"
    ELSE "ok"

NeedsConfirm(c) == c > CONFIRM_LIMIT

ValidateReject ==
    /\ Running /\ pc = "validate"
    /\ ValidationError(min_len, max_len, count) # "ok"
    /\ outcome' = "invalid"
    /\ exitCode' = Some(1)
    /\ UNCHANGED <<pc, count, length, min_len, max_len, pattern, target_len,
                   passwords, plist, i, calls, expansions, progress, lastDraw,
                   file0, file, wpos, saveResult, complete, seed, result>>

ValidateAccept ==
    /\ Running /\ pc = "validate"
    /\ ValidationError(min_len, max_len, count) = "ok"
    /\ pc' = "confirm"
    /\ UNCHANGED <<outcome, exitCode, count, length, min_len, max_len, pattern,
                   target_len, passwords, plist, i, calls, expansions, progress,
                   lastDraw, file0, file, wpos, saveResult, complete, seed, result>>

\* count is small, or the user answers "y"
ConfirmContinue ==
    /\ Running /\ pc = "confirm"
    /\ pc' = "dispatch"
    /\ UNCHANGED <<outcome, exitCode, count, length, min_len, max_len, pattern,
                   target_len, passwords, plist, i, calls, expansions, progress,
                   lastDraw, file0, file, wpos, saveResult, complete, seed, result>>

\* the user answers anything but "y"
ConfirmAbort ==
    /\ Running /\ pc = "confirm"
    /\ NeedsConfirm(count)
    /\ outcome' = "aborted"
    /\ exitCode' = Some(0)
    /\ UNCHANGED <<pc, count, length, min_len, max_len, pattern, target_len,
                   passwords, plist, i, calls, expansions, progress, lastDraw,
                   file0, file, wpos, saveResult, complete, seed, result>>

\* if args.pattern: ... else: ...  (generation is explored for count up to
\* MaxPatternCount with a pattern and up to MaxCount without)
DispatchPattern ==
    /\ Running /\ pc = "dispatch"
    /\ count <= MaxPatternCount
    /\ pattern # <<>>
    /\ pc' = "pattern_loop"
    /\ plist' = <<>>
    /\ i' = 0
    /\ UNCHANGED <<outcome, exitCode, count, length, min_len, max_len, pattern,
                   target_len, passwords, calls, expansions, progress, lastDraw,
                   file0, file, wpos, saveResult, complete, seed, result>>

DispatchRandom ==
    /\ Running /\ pc = "dispatch"
    /\ count <= MaxCount
    /\ pattern = <<>>
    /\ pc' = "resolve"
    /\ passwords' = {}
    /\ UNCHANGED <<outcome, exitCode, count, length, min_len, max_len, pattern,
                   target_len, plist, i, calls, expansions, progress, lastDraw,
                   file0, file, wpos, saveResult, complete, seed, result>>

(***************************************************************************)
(* generate_random_passwords.                                              *)
(***************************************************************************)
\* `if length:`  (None and 0 are both false)
Truthy(len) == len # None /\ len[1] # 0

\* the values target_len can take: the fixed length, or what
\* random.randint(min_len, max_len) can return (nothing when min_len > max_len:
\* randint raises ValueError)
TargetLens(len, mn, mx) == IF Truthy(len) THEN {len[1]} ELSE mn..mx

\* mutant: the loop runs one pass too many
LoopCond_incl(pw, c) == Cardinality(pw) <= c

\* `while len(passwords) < count`
LoopCond(pw, c) == Cardinality(pw) < c

\* `if len(passwords) % 100000 == 0`, with the model's step
ProgressDue(pw) == Cardinality(pw) % PROGRESS_EVERY = 0

\* list(passwords): the set's members in some order
Orders(S) == {f \in [1..Cardinality(S) -> S] : \A j, k \in 1..Cardinality(S) : f[j] = f[k] => j = k}

ResolveTargetLen ==
    /\ Running /\ pc = "resolve"
    /\ \E t \in TargetLens(length, min_len, max_len) :
          /\ t <= MaxTargetLen
          /\ target_len' = Some(t)
    /\ pc' = "sampling"
    /\ UNCHANGED <<outcome, exitCode, count, length, min_len, max_len, pattern,
                   passwords, plist, i, calls, expansions, progress, lastDraw,
                   file0, file, wpos, saveResult, complete, seed, result>>

\* random.randint on an empty range
RandintError ==
    /\ Running /\ pc = "resolve"
    /\ TargetLens(length, min_len, max_len) = {}
    /\ outcome' = "raised"
    /\ UNCHANGED <<pc, exitCode, count, length, min_len, max_len, pattern,
                   target_len, passwords, plist, i, calls, expansions, progress,
                   lastDraw, file0, file, wpos, saveResult, complete, seed, result>>

\* one pass of the loop, drawing pwd
DrawStep(pwd) ==
    /\ Running /\ pc = "sampling"
    /\ LoopCond(passwords, count)
    /\ passwords' = passwords \cup {pwd}
    /\ (pwd \in passwords /\ ProgressDue(passwords')) => Len(progress) < MaxProgress
    /\ progress' = IF ProgressDue(passwords')
                   THEN Append(progress, Cardinality(passwords'))
                   ELSE progress
    /\ lastDraw' = [accepted |-> pwd \notin passwords,
                    notified |-> ProgressDue(passwords')]
    /\ UNCHANGED <<pc, outcome, exitCode, count, length, min_len, max_len,
                   pattern, target_len, plist, i, calls, expansions, file0, file,
                   wpos, saveResult, complete, seed, result>>

Draw == pc = "sampling" /\ \E pwd \in Choices(target_len[1]) : DrawStep(pwd)

\* a pass of the loop whose draw is a new string
DrawNew ==
    pc = "sampling" /\ \E pwd \in Choices(target_len[1]) \ passwords : DrawStep(pwd)

ReturnRandom ==
    /\ Running /\ pc = "sampling"
    /\ ~LoopCond(passwords, count)
    /\ \E order \in Orders(passwords) : plist' = order
    /\ pc' = "generated"
    /\ UNCHANGED <<outcome, exitCode, count, length, min_len, max_len, pattern,
                   target_len, passwords, i, calls, expansions, progress,
                   lastDraw, file0, file, wpos, saveResult, complete, seed, result>>

(***************************************************************************)
(* generate_pattern_passwords.                                             *)
(***************************************************************************)
\* mutant: the range is taken exclusive
LengthOk_strict(pwd, mn, mx) == mn < Len(pwd) /\ Len(pwd) < mx

\* `self.min_len <= len(pwd) <= self.max_len`
LengthOk(pwd, mn, mx) == mn <= Len(pwd) /\ Len(pwd) <= mx

PatternStep ==
    /\ Running /\ pc = "pattern_loop"
    /\ i < count
    /\ \E a \in ascii_letters, d \in digits, s \in punctuation :
          LET pwd == apply_pattern(pattern, i, a, d, s) IN
          /\ plist' = IF LengthOk(pwd, min_len, max_len) THEN Append(plist, pwd) ELSE plist
          /\ expansions' = Append(expansions, pwd)
    /\ calls' = Append(calls, i)
    /\ i' = i + 1
    /\ UNCHANGED <<pc, outcome, exitCode, count, length, min_len, max_len,
                   pattern, target_len, passwords, progress, lastDraw, file0,
                   file, wpos, saveResult, complete, seed, result>>

ReturnPattern ==
    /\ Running /\ pc = "pattern_loop"
    /\ i >= count
    /\ pc' = "generated"
    /\ UNCHANGED <<outcome, exitCode, count, length, min_len, max_len, pattern,
                   target_len, passwords, plist, i, calls, expansions, progress,
                   lastDraw, file0, file, wpos, saveResult, complete, seed, result>>

(***************************************************************************)
(* save_to_file, and the end of main().                                    *)
(***************************************************************************)
\* mutant: the destination is opened while the generator is still running
SaveReady_early == pc \in {"generated", "sampling", "pattern_loop"}

\* main() calls save_to_file once a generator has returned
SaveReady == pc = "generated"

\* open(filename, 'w') succeeds: the destination is created or truncated
OpenOk ==
    /\ Running /\ SaveReady
    /\ file' = [exists |-> TRUE, lines |-> <<>>]
    /\ wpos' = 1
    /\ pc' = "writing"
    /\ UNCHANGED <<outcome, exitCode, count, length, min_len, max_len, pattern,
                   target_len, passwords, plist, i, calls, expansions, progress,
                   lastDraw, file0, saveResult, complete, seed, result>>

\* open raises: the except clause returns False
OpenFail ==
    /\ Running /\ SaveReady
    /\ saveResult' = Some(FALSE)
    /\ pc' = "saved"
    /\ UNCHANGED <<outcome, exitCode, count, length, min_len, max_len, pattern,
                   target_len, passwords, plist, i, calls, expansions, progress,
                   lastDraw, file0, file, wpos, complete, seed, result>>

\* f.write(pwd + '\n') for the next entry
WriteOk ==
    /\ Running /\ pc = "writing"
    /\ wpos <= Len(plist)
    /\ file' = [file EXCEPT !.lines = Append(@, plist[wpos])]
    /\ wpos' = wpos + 1
    /\ UNCHANGED <<pc, outcome, exitCode, count, length, min_len, max_len,
                   pattern, target_len, passwords, plist, i, calls, expansions,
                   progress, lastDraw, file0, saveResult, complete, seed, result>>

\* f.write raises for the next entry: what was written stays, the with block
\* closes the file and the except clause returns False
WriteFail ==
    /\ Running /\ pc = "writing"
    /\ wpos <= Len(plist)
    /\ saveResult' = Some(FALSE)
    /\ pc' = "saved"
    /\ UNCHANGED <<outcome, exitCode, count, length, min_len, max_len, pattern,
                   target_len, passwords, plist, i, calls, expansions, progress,
                   lastDraw, file0, file, wpos, complete, seed, result>>

\* every entry written and the file closed: return True
CloseOk ==
    /\ Running /\ pc = "writing"
    /\ wpos > Len(plist)
    /\ saveResult' = Some(TRUE)
    /\ pc' = "saved"
    /\ UNCHANGED <<outcome, exitCode, count, length, min_len, max_len, pattern,
                   target_len, passwords, plist, i, calls, expansions, progress,
                   lastDraw, file0, file, wpos, complete, seed, result>>

\* main() ignores save_to_file's result, prints the summary and returns
Finish ==
    /\ Running /\ pc = "saved"
    /\ complete' = TRUE
    /\ outcome' = "completed"
    /\ exitCode' = Some(0)
    /\ UNCHANGED <<pc, count, length, min_len, max_len, pattern, target_len,
                   passwords, plist, i, calls, expansions, progress, lastDraw,
                   file0, file, wpos, saveResult, seed, result>>

\* KeyboardInterrupt, at any point of main(): sys.exit(0)
Interrupt ==
    /\ Running
    /\ outcome' = "interrupted"
    /\ exitCode' = Some(0)
    /\ UNCHANGED <<pc, count, length, min_len, max_len, pattern, target_len,
                   passwords, plist, i, calls, expansions, progress, lastDraw,
                   file0, file, wpos, saveResult, complete, seed, result>>

Next ==
    \/ ValidateReject \/ ValidateAccept
    \/ ConfirmContinue \/ ConfirmAbort
    \/ DispatchPattern \/ DispatchRandom
    \/ ResolveTargetLen \/ Draw \/ ReturnRandom
    \/ PatternStep \/ ReturnPattern
    \/ OpenOk \/ OpenFail \/ WriteOk \/ WriteFail \/ CloseOk
    \/ Finish \/ Interrupt

Spec == Init /\ [][Next]_vars

(***************************************************************************)
(* generate_random_passwords called on its own, with any bounds.           *)
(***************************************************************************)
SamplerInit ==
    /\ pc = "resolve"
    /\ count \in 0..MaxCount
    /\ length \in LengthArgs
    /\ min_len \in 0..MaxTargetLen
    /\ max_len \in 0..MaxTargetLen
    /\ pattern = <<>>
    /\ seed = 0
    /\ Fresh

SamplerNext == ResolveTargetLen \/ RandintError \/ Draw \/ ReturnRandom

\* random draws are fair: a loop that can draw a new string eventually does
SamplerSpec ==
    /\ SamplerInit /\ [][SamplerNext]_vars
    /\ WF_vars(ResolveTargetLen) /\ WF_vars(DrawNew) /\ WF_vars(ReturnRandom)

(***************************************************************************)
(* apply_pattern called on its own.                                        *)
(***************************************************************************)
PatternInit ==
    /\ pc = "apply"
    /\ count = 0
    /\ length = None
    /\ min_len = 0
    /\ max_len = 0
    /\ pattern \in CharPatterns(MaxPatLen)
    /\ seed \in 0..MaxSeed
    /\ Fresh

ApplyPattern ==
    /\ pc = "apply"
    /\ \E a \in ascii_letters, d \in digits, s \in punctuation :
          result' = Some(apply_pattern(pattern, seed, a, d, s))
    /\ pc' = "applied"
    /\ UNCHANGED <<outcome, exitCode, count, length, min_len, max_len, pattern,
                   target_len, passwords, plist, i, calls, expansions, progress,
                   lastDraw, file0, file, wpos, saveResult, complete, seed>>

PatternNext == ApplyPattern

PatternSpec == PatternInit /\ [][PatternNext]_vars

(***************************************************************************)
(* Properties.                                                             *)
(***************************************************************************)
Range(q) == {q[k] : k \in 1..Len(q)}
RandomMode == pattern = <<>>
Generating == pc \in {"validate", "confirm", "dispatch", "resolve", "sampling", "pattern_loop"}

\* C1: whenever generate_random_passwords returns for count >= 1, the result
\* has exactly count members, all distinct, each of length target_len and made
\* of charset characters.
C1_SamplerContract ==
    (RandomMode /\ pc = "generated" /\ count >= 1) =>
        /\ Cardinality(passwords) = count
        /\ Len(plist) = count
        /\ Cardinality(Range(plist)) = count
        /\ \A p \in Range(plist) :
              /\ Len(p) = target_len[1]
              /\ Range(p) \subseteq charset

\* C2: in pattern mode apply_pattern is called with seeds 0, 1, ... in order,
\* count times in all; the list holds exactly the expansions whose length is in
\* [min_len, max_len], in seed order, so it has at most count entries.
C2_InRange(e) == min_len <= Len(e) /\ Len(e) <= max_len

C2_PatternMode ==
    (~RandomMode /\ pc \in {"pattern_loop", "generated", "writing", "saved"}) =>
        /\ calls = [k \in 1..i |-> k - 1]
        /\ Len(expansions) = i
        /\ i <= count
        /\ pc # "pattern_loop" => i = count
        /\ plist = SelectSeq(expansions, C2_InRange)
        /\ Len(plist) <= count
        /\ passwords = {}

\* a pattern run that returned with some expansions kept and the last dropped
C2_Witness ==
    /\ ~RandomMode /\ pc = "generated"
    /\ Len(expansions) = count
    /\ 0 < Len(plist) /\ Len(plist) < count
    /\ ~C2_InRange(expansions[count])

\* C3: after save_to_file fails the destination holds none of the entries,
\* and after it succeeds the destination holds all of them, in order.
C3_NoPartialWrite ==
    /\ saveResult = Some(FALSE) => Range(file.lines) \cap Range(plist) = {}
    /\ saveResult = Some(TRUE) => file.lines = plist

\* C4: a run whose save failed does not report completion and exits with
\* code 1; exit code 0 only after a successful write, an aborted confirmation
\* or an interrupt.
C4_FailureExitsNonZero ==
    /\ (saveResult = Some(FALSE) /\ outcome \notin {"running", "interrupted"}) =>
          (exitCode = Some(1) /\ ~complete)
    /\ exitCode = Some(0) =>
          (outcome \in {"aborted", "interrupted"} \/ saveResult = Some(TRUE))

\* C5: a request passes validation exactly when 1 <= min <= max <= 128 and
\* count >= 1; a rejected request exits with code 1 before any generation
\* step and with the destination as it was.
C5_Validation ==
    LET valid == 1 <= min_len /\ min_len <= max_len /\ max_len <= 128 /\ count >= 1 IN
    /\ pc # "validate" => valid
    /\ outcome = "invalid" =>
          /\ ~valid
          /\ exitCode = Some(1)
          /\ pc = "validate"
          /\ file = file0
          /\ target_len = None /\ passwords = {} /\ plist = <<>> /\ calls = <<>>
    /\ (valid /\ outcome # "running") => outcome # "invalid"
    /\ (~valid /\ outcome \notin {"running", "interrupted"}) => outcome = "invalid"

\* a request rejected for max = 0 although min is in range
C5_Witness == outcome = "invalid" /\ min_len = 1 /\ max_len = 0 /\ count >= 1

\* C6: in random mode the target length is the supplied fixed length whenever
\* one is supplied (0 included), and otherwise a value in [min_len, max_len].
C6_FixedLengthWins ==
    (RandomMode /\ target_len # None) =>
        /\ length # None => target_len = length
        /\ length = None => (min_len <= target_len[1] /\ target_len[1] <= max_len)

\* C7: the destination is as it was until generation has completed, also in
\* a run interrupted during generation.
C7_GenerationBeforeWrite ==
    /\ Generating => (file = file0 /\ wpos = 0 /\ saveResult = None)
    /\ (file # file0 \/ wpos # 0 \/ saveResult # None) =>
          /\ pc \in {"writing", "saved"}
          /\ RandomMode => (~LoopCond(passwords, count) /\ Range(plist) = passwords)
          /\ ~RandomMode => i = count

\* a run interrupted in the sampling loop with entries already drawn
C7_Witness == outcome = "interrupted" /\ pc = "sampling" /\ passwords # {}

\* C8: the sizes reported are exactly the multiples of the step the set has
\* reached, each once, and a pass that discarded a duplicate reports nothing.
C8_ProgressOncePerStep ==
    /\ progress = [k \in 1..(Cardinality(passwords) \div PROGRESS_EVERY) |-> k * PROGRESS_EVERY]
    /\ lastDraw.notified => lastDraw.accepted

\* the pattern with each token occurrence of the original replaced where it
\* stands, everything else kept
RECURSIVE ReplaceInPlace(_, _, _, _, _)
ReplaceInPlace(pat, sd, a, d, s) ==
    IF Len(pat) < 3 THEN pat
    ELSE LET tok == SubSeq(pat, 1, 3)
             rest == SubSeq(pat, 4, Len(pat))
         IN  IF tok = TokN THEN DecStr(sd) \o ReplaceInPlace(rest, sd, a, d, s)
             ELSE IF tok = TokA THEN <<a>> \o ReplaceInPlace(rest, sd, a, d, s)
             ELSE IF tok = TokD THEN <<d>> \o ReplaceInPlace(rest, sd, a, d, s)
             ELSE IF tok = TokS THEN <<s>> \o ReplaceInPlace(rest, sd, a, d, s)
             ELSE <<Head(pat)>> \o ReplaceInPlace(Tail(pat), sd, a, d, s)

\* C9: apply_pattern changes only the token occurrences of the original
\* pattern; text a substitution produced is never read as a token.
C9_OnlyOriginalTokens ==
    pc = "applied" =>
        \E a \in ascii_letters, d \in digits, s \in punctuation :
            result = Some(ReplaceInPlace(pattern, seed, a, d, s))

====
